---- MODULE Spec2Model ----
(***************************************************************************)
(* Model of DataExtraction/fetch_hathor_nft.py: one call of                *)
(* fetch_hathor_nft(uid) against an explorer API, an explorer HTML page    *)
(* and a wall clock that may advance while the call runs.                  *)
(*                                                                         *)
(* Dates carry year and month only: lines 74 and 89 observe nothing else   *)
(* of a date.  symbol, configurationString, tokenId, creator, priceData    *)
(* and the zip of transactionHistory are passed through by the code and    *)
(* are left out of the report record.                                      *)
(***************************************************************************)
EXTENDS Integers, Sequences, FiniteSets, TLC

(***************************************************************************)
(* Bounds                                                                  *)
(***************************************************************************)
\* longest name text enumerated
MaxNameLen == 2
\* longest total-supply text enumerated
MaxSupplyLen == 2
\* largest number of distinct transaction hashes on the page
MaxTx == 14
\* largest number of repeated transaction links on the page
MaxDup == 1
\* oldest first transaction, in months before the clock's start
MaxAge == 27
\* number of month changes of the wall clock during one call
MaxTicks == 1

(***************************************************************************)
(* Python values                                                           *)
(***************************************************************************)
None == [py |-> "None"]

\* key missing from the JSON object
Absent == [py |-> "absent"]

PyStr(s) == [py |-> "str", v |-> s]

PyInt(n) == [py |-> "int", v |-> n]

\* an empty JSON object or list
EmptyJson == [py |-> "empty"]

IsStr(x) == x.py = "str"

\* truth value of an optional string: None and "" are falsy
Truthy(x) == IsStr(x) /\ x.v # <<>>

Date(y, m) == [year |-> y, month |-> m]

NoDate == [year |-> 0, month |-> 1]

\* date text that strptime("%b %d, %Y") rejects
BadDate == [year |-> 0, month |-> 0]

NoException == [type |-> "none", line |-> 0]

Exception(t, l) == [type |-> t, line |-> l]

(***************************************************************************)
(* String helpers (str.strip, str.split, in, int)                          *)
(***************************************************************************)
RECURSIVE LStrip(_)
LStrip(s) ==
    IF s # <<>> /\ Head(s) = " " THEN LStrip(Tail(s)) ELSE s

RECURSIVE RStrip(_)
RStrip(s) ==
    IF s # <<>> /\ s[Len(s)] = " " THEN RStrip(SubSeq(s, 1, Len(s) - 1)) ELSE s

Strip(s) == RStrip(LStrip(s))

Contains(s, c) == \E i \in 1..Len(s) : s[i] = c

\* s.split(c)[0]: the text before the first c, the whole text without c
RECURSIVE SplitHead(_, _)
SplitHead(s, c) ==
    IF s = <<>> \/ Head(s) = c THEN <<>> ELSE <<Head(s)>> \o SplitHead(Tail(s), c)

Digits == {"0", "3"}

DigitVal(c) == IF c = "3" THEN 3 ELSE 0

\* int(text) accepts a non-empty run of decimal digits
IsIntLiteral(s) == s # <<>> /\ \A i \in 1..Len(s) : s[i] \in Digits

RECURSIVE IntValue(_)
IntValue(s) ==
    IF s = <<>> THEN 0 ELSE 10 * IntValue(SubSeq(s, 1, Len(s) - 1)) + DigitVal(s[Len(s)])

Min(a, b) == IF a < b THEN a ELSE b

Max(a, b) == IF a > b THEN a ELSE b

(***************************************************************************)
(* Dates                                                                   *)
(***************************************************************************)
DateLE(a, b) == a.year < b.year \/ (a.year = b.year /\ a.month <= b.month)

\* min(tx_dates)
MinDate(ds) ==
    CHOOSE d \in {ds[i] : i \in 1..Len(ds)} : \A j \in 1..Len(ds) : DateLE(d, ds[j])

AddMonthsNoCarry(d, i) == Date(d.year + (i \div 12), d.month + (i % 12))

\* d + relativedelta(months=i), i >= 0
AddMonths(d, i) ==
    LET y == d.year + (i \div 12)
        m == d.month + (i % 12)
    IN  IF m > 12 THEN Date(y + 1, m - 12) ELSE Date(y, m)

\* strftime("%Y-%m"), the text YYYY-MM read as the number YYYYMM
YearMonth(d) == d.year * 100 + d.month

\* the calendar month after d
NextMonth(d) == IF d.month = 12 THEN Date(d.year + 1, 1) ELSE Date(d.year, d.month + 1)

(***************************************************************************)
(* Scoring (lines 60-93)                                                   *)
(***************************************************************************)
Label(s) == [py |-> "str", v |-> s]

\* line 60
Verified(cm, ct) == ~cm /\ ~ct

\* line 62 raises AttributeError when name is None
CollectionRaises(nm) == ~IsStr(nm)

\* line 62, nm a string
Collection(nm) ==
    IF Truthy(nm) /\ Contains(nm.v, "#")
    THEN PyStr(Strip(SplitHead(nm.v, "#")))
    ELSE PyStr(Strip(nm.v))

\* line 74, ty and tm the results of the two datetime.today() reads
AgeMonths(ty, tm, first) == Max(1, (ty - first.year) * 12 + tm - first.month)

\* line 75
AgePoints(a) == Min(a, 25)

\* line 76
TxPoints(n) == Min(2 * n, 25)

ImmutabilityPointsEither(v, cm, ct) == IF v THEN 25 ELSE (IF cm \/ ct THEN 12 ELSE 0)

\* line 77
ImmutabilityPoints(v, cm, ct) == IF v THEN 25 ELSE (IF cm # ct THEN 12 ELSE 0)

ScoreUncapped(a, t, i) == 50 + a + t + i

\* line 78
Score(a, t, i) == Min(100, 50 + a + t + i)

HistoryShifted(first, months, t, i) ==
    [k \in 1..months |->
        [date  |-> YearMonth(AddMonths(first, k - 1)),
         score |-> Min(100, 50 + Min(k, 25) + t + i)]]

\* lines 88-91, point k of the model is index i = k - 1 of the code
History(first, months, t, i) ==
    [k \in 1..months |->
        [date  |-> YearMonth(AddMonths(first, k - 1)),
         score |-> Min(100, 50 + Min(k - 1, 25) + t + i)]]

\* line 92, every label is a non-empty literal, so "if s" keeps the strings
Strengths(i, t) ==
    SelectSeq(<< IF i = 25 THEN Label("Strong immutability") ELSE None,
                 IF t >= 20 THEN Label("Good transaction history") ELSE None >>,
              IsStr)

\* line 93, no filter
Concerns(a) == << IF a < 5 THEN Label("Low age") ELSE None >>

(***************************************************************************)
(* The sources the call reads: the explorer API's answer, the explorer's   *)
(* HTML page, the wall clock                                               *)
(***************************************************************************)
SeqsUpTo(S, n) == UNION {[1..k -> S] : k \in 0..n}

NameChars == {"a", "#", " "}

SupplyChars == {"0", "3", "x"}

PyNames == {None} \cup {PyStr(s) : s \in SeqsUpTo(NameChars, MaxNameLen)}

SupplyTexts == {None} \cup {PyStr(s) : s \in SeqsUpTo(SupplyChars, MaxSupplyLen)}

ApiTotals == {Absent, None} \cup {PyInt(n) : n \in {0, 1, 3}}

Yes == PyStr(<<"Y", "e", "s">>)

No == PyStr(<<"N", "o">>)

FlagTexts == {None, Yes, No}

ClockStart == Date(2025, 12)

\* the month k months before d (k < 0: after d)
MonthsBefore(d, k) ==
    LET idx == d.year * 12 + (d.month - 1) - k
    IN  Date(idx \div 12, (idx % 12) + 1)

FirstDates == {MonthsBefore(ClockStart, k) : k \in -1..MaxAge}

\* text of an <a href=".../transaction/..."> element: a 64-character hash
HashText(k) == [id |-> k, len |-> 64]

\* text of a link to a transaction that is not a bare hash
NavText == [id |-> 0, len |-> 7]

TxLink(t, d) == [text |-> t, date |-> d]

\* a page listing n transactions, the oldest (dated first) last, after a
\* navigation link, followed by d links that repeat listed transactions
TxLinks(n, d, first) ==
    <<TxLink(NavText, BadDate)>>
    \o [k \in 1..n |-> TxLink(HashText(k), AddMonths(first, (n - k) % 3))]
    \o [k \in 1..d |-> TxLink(HashText(k), AddMonths(first, (n - k) % 3))]

FullHistories ==
    {TxLinks(n, d, f) : n \in 0..MaxTx, d \in 0..MaxDup, f \in FirstDates}

SmallHistories ==
    {TxLinks(n, 0, f) : n \in 0..1, f \in {ClockStart, MonthsBefore(ClockStart, 6)}}

\* a transaction whose date cell does not hold a date
BadDateHistory == <<TxLink(HashText(1), BadDate)>>

ApiError == [status |-> "error", data |-> None]

ApiEmpty == [status |-> "ok", data |-> EmptyJson]

ApiOk(nm, tot, cm, ct) ==
    [status |-> "ok",
     data   |-> [py |-> "dict", name |-> nm, total |-> tot, can_mint |-> cm, can_melt |-> ct]]

PageError == [status |-> "error"]

PageOk(nm, sup, mi, me, ls) ==
    [status |-> "ok", name |-> nm, supply |-> sup, mint |-> mi, melt |-> me, links |-> ls]

BaseName == PyStr(<<"a">>)

World(a, p) == [api |-> a, page |-> p]

\* every name, from either source
NameWorlds ==
    {World(ApiOk(nm, Absent, FALSE, FALSE), PageOk(None, None, None, None, ls)) :
        nm \in PyNames \cup {Absent}, ls \in SmallHistories}
    \cup
    {World(a, PageOk(nm, None, None, None, ls)) :
        a \in {ApiError, ApiEmpty}, nm \in PyNames, ls \in SmallHistories}

\* every total supply, from either source
SupplyWorlds ==
    {World(ApiOk(BaseName, tot, FALSE, FALSE), PageOk(None, None, None, None, ls)) :
        tot \in ApiTotals, ls \in SmallHistories}
    \cup
    {World(a, PageOk(BaseName, sup, None, None, ls)) :
        a \in {ApiError, ApiEmpty}, sup \in SupplyTexts, ls \in SmallHistories}

\* every mint/melt flag with every transaction history
HistoryWorlds ==
    {World(ApiOk(BaseName, PyInt(1), cm, ct), PageOk(None, None, None, None, ls)) :
        cm \in BOOLEAN, ct \in BOOLEAN, ls \in FullHistories}
    \cup
    {World(ApiError, PageOk(BaseName, None, mi, me, ls)) :
        mi \in FlagTexts, me \in FlagTexts, ls \in SmallHistories}
    \cup
    {World(ApiError, PageOk(BaseName, None, mi, me, ls)) :
        mi \in {Yes, No}, me \in {Yes, No}, ls \in FullHistories}

\* failing lookups
FailureWorlds ==
    {World(a, p) :
        a \in {ApiError, ApiEmpty, ApiOk(BaseName, PyInt(1), FALSE, FALSE)},
        p \in {PageError, PageOk(BaseName, None, None, None, BadDateHistory)}}

Worlds == NameWorlds \cup SupplyWorlds \cup HistoryWorlds \cup FailureWorlds

(***************************************************************************)
(* State                                                                   *)
(***************************************************************************)
VARIABLES
    api,                \* answer of the explorer API for uid
    page,               \* the explorer's HTML page for uid
    now,                \* the wall clock, datetime.today()
    ticks,              \* clock advances since the call began
    pc,                 \* position of the call
    data,
    name,
    totalSupply,
    canMint,
    canMelt,
    tx_hashes,
    tx_dates,
    verified,
    collection,
    transactionsCount,
    first_tx_date,
    today_year,         \* result of the first datetime.today() of line 74
    age_months,
    result,             \* the returned dict
    exc                 \* the exception that left the function

world == <<api, page>>

clock == <<now, ticks>>

resolved == <<name, totalSupply, canMint, canMelt, tx_hashes, tx_dates>>

derived == <<verified, collection, transactionsCount>>

aged == <<first_tx_date, today_year, age_months>>

vars == <<api, page, now, ticks, pc, data, name, totalSupply, canMint, canMelt,
          tx_hashes, tx_dates, verified, collection, transactionsCount,
          first_tx_date, today_year, age_months, result, exc>>

NoResult == [py |-> "None"]

Init ==
    /\ \E w \in Worlds : api = w.api /\ page = w.page
    /\ now = ClockStart
    /\ ticks = 0
    /\ pc = "api"
    /\ data = None
    /\ name = None
    /\ totalSupply = 0
    /\ canMint = FALSE
    /\ canMelt = FALSE
    /\ tx_hashes = {}
    /\ tx_dates = <<>>
    /\ verified = FALSE
    /\ collection = None
    /\ transactionsCount = 0
    /\ first_tx_date = NoDate
    /\ today_year = 0
    /\ age_months = 0
    /\ result = NoResult
    /\ exc = NoException

(***************************************************************************)
(* Steps of fetch_hathor_nft                                               *)
(***************************************************************************)
Raise(t, l) ==
    /\ pc' = "raised"
    /\ exc' = Exception(t, l)
    /\ UNCHANGED <<data, resolved, derived, aged, result>>

\* get_text, lines 23-28: the stripped text of the field, None without it
GetText(field) == IF IsStr(field) THEN PyStr(Strip(field.v)) ELSE None

\* the links line 37/54 and lines 38-41/55-58 keep
HashLinks(ls) == SelectSeq(ls, LAMBDA l : l.text.len = 64)

TxHashesWithRepeats(ls) == {<<i, HashLinks(ls)[i].text>> : i \in 1..Len(HashLinks(ls))}

\* lines 37 and 54
TxHashes(ls) == {HashLinks(ls)[i].text : i \in 1..Len(HashLinks(ls))}

\* lines 38-41 and 55-58, all dates parseable
TxDates(ls) == [i \in 1..Len(HashLinks(ls)) |-> HashLinks(ls)[i].date]

\* strptime raises ValueError on some kept link
DateParseFails(ls) == \E i \in 1..Len(HashLinks(ls)) : HashLinks(ls)[i].date = BadDate

\* "not data", line 19
Falsy(d) == d = None \/ d = EmptyJson

\* lines 12-17
ApiLookup ==
    /\ pc = "api"
    /\ data' = IF api.status = "ok" THEN api.data ELSE None
    /\ pc' = "branch"
    /\ UNCHANGED <<world, clock, resolved, derived, aged, result, exc>>

\* lines 19-41
HtmlBranch ==
    /\ pc = "branch"
    /\ Falsy(data)
    /\ UNCHANGED <<world, clock>>
    /\ IF page.status = "error"
       THEN Raise("ConnectionError", 20)
       ELSE LET supply == GetText(page.supply)
            IN  IF Truthy(supply) /\ ~IsIntLiteral(supply.v)
                THEN Raise("ValueError", 32)
                ELSE IF DateParseFails(page.links)
                THEN Raise("ValueError", 39)
                ELSE /\ name' = GetText(page.name)
                     /\ totalSupply' = IF Truthy(supply) THEN IntValue(supply.v) ELSE 1
                     /\ canMint' = (GetText(page.mint) = Yes)
                     /\ canMelt' = (GetText(page.melt) = Yes)
                     /\ tx_hashes' = TxHashes(page.links)
                     /\ tx_dates' = TxDates(page.links)
                     /\ pc' = "normalize"
                     /\ UNCHANGED <<data, derived, aged, result, exc>>

\* lines 42-58
ApiBranch ==
    /\ pc = "branch"
    /\ ~Falsy(data)
    /\ UNCHANGED <<world, clock>>
    /\ IF data.total = None
       THEN Raise("TypeError", 45)
       ELSE IF page.status = "error"
       THEN Raise("ConnectionError", 51)
       ELSE IF DateParseFails(page.links)
       THEN Raise("ValueError", 56)
       ELSE /\ name' = IF data.name = Absent THEN None ELSE data.name
            /\ totalSupply' = IF data.total = Absent THEN 1 ELSE data.total.v
            /\ canMint' = data.can_mint
            /\ canMelt' = data.can_melt
            /\ tx_hashes' = TxHashes(page.links)
            /\ tx_dates' = TxDates(page.links)
            /\ pc' = "normalize"
            /\ UNCHANGED <<data, derived, aged, result, exc>>

\* lines 60-67
Normalize ==
    /\ pc = "normalize"
    /\ UNCHANGED <<world, clock>>
    /\ IF CollectionRaises(name)
       THEN Raise("AttributeError", 62)
       ELSE /\ verified' = Verified(canMint, canMelt)
            /\ collection' = Collection(name)
            /\ transactionsCount' = Cardinality(tx_hashes)
            /\ pc' = "first_tx"
            /\ UNCHANGED <<data, resolved, aged, result, exc>>

\* lines 69-72
FirstTxDate ==
    /\ pc = "first_tx"
    /\ first_tx_date' = IF tx_dates # <<>> THEN MinDate(tx_dates) ELSE now
    /\ pc' = "today_year"
    /\ UNCHANGED <<world, clock, data, resolved, derived, today_year, age_months, result, exc>>

\* line 74, datetime.today().year
ReadYear ==
    /\ pc = "today_year"
    /\ today_year' = now.year
    /\ pc' = "today_month"
    /\ UNCHANGED <<world, clock, data, resolved, derived, first_tx_date, age_months, result, exc>>

\* line 74, datetime.today().month and the rest of the expression
ReadMonth ==
    /\ pc = "today_month"
    /\ age_months' = AgeMonths(today_year, now.month, first_tx_date)
    /\ pc' = "score"
    /\ UNCHANGED <<world, clock, data, resolved, derived, first_tx_date, today_year, result, exc>>

\* lines 75-116
BuildReport ==
    /\ pc = "score"
    /\ LET age_points == AgePoints(age_months)
           tx_points == TxPoints(transactionsCount)
           immutability_points == ImmutabilityPoints(verified, canMint, canMelt)
           score == Score(age_points, tx_points, immutability_points)
       IN  result' =
             [name |-> name,
              totalSupply |-> totalSupply,
              canMint |-> canMint,
              canMelt |-> canMelt,
              verified |-> verified,
              collection |-> collection,
              transactionsCount |-> transactionsCount,
              trustScore |-> score,
              score |-> score,
              confidenceLevel |-> score,
              factors |-> [Age |-> age_points,
                           TransactionHistory |-> tx_points,
                           Immutability |-> immutability_points],
              history |-> History(first_tx_date, age_months, tx_points, immutability_points),
              strengths |-> Strengths(immutability_points, tx_points),
              concerns |-> Concerns(age_points)]
    /\ pc' = "done"
    /\ UNCHANGED <<world, clock, data, resolved, derived, aged, exc>>

\* the wall clock passes into the next month while the call runs
Tick ==
    /\ pc \notin {"done", "raised"}
    /\ ticks < MaxTicks
    /\ now' = NextMonth(now)
    /\ ticks' = ticks + 1
    /\ UNCHANGED <<world, pc, data, resolved, derived, aged, result, exc>>

Next ==
    \/ ApiLookup
    \/ HtmlBranch
    \/ ApiBranch
    \/ Normalize
    \/ FirstTxDate
    \/ ReadYear
    \/ ReadMonth
    \/ BuildReport
    \/ Tick

Spec == Init /\ [][Next]_vars

Returned == pc = "done"

Raised == pc = "raised"

(***************************************************************************)
(* Properties                                                              *)
(***************************************************************************)
InSeq(x, s) == \E i \in 1..Len(s) : s[i] = x

\* 50 + ageScore + txScore + immutabilityScore of the returned report
FactorSum ==
    50 + result.factors.Age + result.factors.TransactionHistory + result.factors.Immutability

\* the year-month YYYYMM that lies i months after date d
MonthLabel(d, i) ==
    LET idx == d.year * 12 + (d.month - 1) + i
    IN  (idx \div 12) * 100 + (idx % 12) + 1

\* the wall-clock months the call has run through
Instants == {MonthsBefore(ClockStart, -j) : j \in 0..ticks}

\* C1: every returned report has score = min(100, 50 + ageScore + txScore +
\* immutabilityScore), each of the three factors within 0..25, and therefore
\* 50 <= score <= 100.
C1_ScoreFormula ==
    Returned =>
        /\ result.factors.Age \in 0..25
        /\ result.factors.TransactionHistory \in 0..25
        /\ result.factors.Immutability \in 0..25
        /\ result.score = (IF FactorSum > 100 THEN 100 ELSE FactorSum)
        /\ result.trustScore = result.score
        /\ result.score >= 50
        /\ result.score <= 100

\* a report whose factor sum exceeds the cap
C1_Witness == Returned /\ FactorSum > 100 /\ result.score = 100

\* C2: the concerns list is ["Low age"] when ageScore < 5 and the empty list
\* otherwise, and neither concerns nor strengths holds a None placeholder.
C2_NoPlaceholders ==
    Returned =>
        /\ result.concerns =
             (IF result.factors.Age < 5 THEN <<Label("Low age")>> ELSE <<>>)
        /\ ~InSeq(None, result.concerns)
        /\ ~InSeq(None, result.strengths)

\* C3: a source without a name raises nothing: the call never leaves line 62
\* with an exception, and a returned report has collection None for a None
\* name, else the stripped text before the first '#', else the stripped name.
C3_CollectionTotal ==
    /\ exc # Exception("AttributeError", 62)
    /\ Returned =>
         result.collection =
           (IF result.name = None THEN None
            ELSE IF Contains(result.name.v, "#")
                 THEN PyStr(Strip(SplitHead(result.name.v, "#")))
                 ELSE PyStr(Strip(result.name.v)))

\* C4: verified holds iff canMint and canMelt are both false iff
\* immutabilityScore = 25; exactly one flag set gives 12, both set give 0, no
\* other value occurs, and "Strong immutability" is a strength iff verified.
C4_Immutability ==
    Returned =>
        LET imm == result.factors.Immutability
        IN  /\ result.verified <=> (result.canMint = FALSE /\ result.canMelt = FALSE)
            /\ result.verified <=> (imm = 25)
            /\ (result.canMint # result.canMelt) => imm = 12
            /\ (result.canMint /\ result.canMelt) => imm = 0
            /\ imm \in {0, 12, 25}
            /\ InSeq(Label("Strong immutability"), result.strengths) <=> result.verified

\* a report for a token that can be both minted and melted
C4_Witness ==
    Returned /\ result.canMint /\ result.canMelt /\ result.factors.Immutability = 0

\* C5: the trend has exactly ageMonths >= 1 points; point i is labelled with
\* the year-month i months after firstTxDate and valued
\* min(100, 50 + min(i, 25) + txScore + immutabilityScore).
C5_TrendShape ==
    Returned =>
        /\ age_months >= 1
        /\ Len(result.history) = age_months
        /\ \A k \in 1..Len(result.history) :
             LET i == k - 1
                 v == 50 + (IF i < 25 THEN i ELSE 25)
                         + result.factors.TransactionHistory + result.factors.Immutability
             IN  /\ result.history[k].date = MonthLabel(first_tx_date, i)
                 /\ result.history[k].score = (IF v < 100 THEN v ELSE 100)

\* a trend of more than 25 points, running over several year ends
C5_Witness == Returned /\ Len(result.history) > 25 /\ tx_dates # <<>>

\* C6: the age is max(1, (today.year - first.year)*12 + today.month -
\* first.month) for one single instant today of the call, which is also the
\* default first transaction date of an empty transaction set.
C6_SingleInstant ==
    Returned =>
        \E t \in Instants :
            /\ age_months =
                 Max(1, (t.year - first_tx_date.year) * 12 + t.month - first_tx_date.month)
            /\ tx_dates = <<>> => first_tx_date = t

\* C7: no failure of the page lookup (connection error, unparseable
\* transaction date) leaves the function as an exception.
C7_LookupFailuresContained ==
    Raised => exc.line \notin {20, 39, 51, 56}

\* C8: an absent, null or unparseable total supply raises nothing and is
\* reported as 1; every returned totalSupply is >= 1.
C8_SupplyDefault ==
    /\ Raised => exc.line \notin {32, 45}
    /\ Returned => result.totalSupply >= 1

\* C9: transactionsCount is the number of distinct 64-character hashes among
\* the page's transaction links; txScore = min(2 * count, 25), non-decreasing
\* in the count and 25 from 13 transactions on; "Good transaction history" is
\* a strength iff txScore >= 20 iff count >= 10; no transactions give 0 and 0.
C9_TransactionScore ==
    Returned =>
        LET n == result.transactionsCount
            t == result.factors.TransactionHistory
            good == InSeq(Label("Good transaction history"), result.strengths)
        IN  /\ n = Cardinality({page.links[i].text.id :
                                   i \in {j \in 1..Len(page.links) : page.links[j].text.len = 64}})
            /\ t = (IF n >= 13 THEN 25 ELSE 2 * n)
            /\ good <=> (t >= 20)
            /\ good <=> (n >= 10)
            /\ (tx_dates = <<>>) => (n = 0 /\ t = 0)
            /\ \A m \in 0..n : TxPoints(m) <= t
            /\ \A m \in 0..12 : TxPoints(m) < 25

\* a page with repeated links and at least 13 distinct transactions
C9_Witness ==
    /\ Returned
    /\ result.transactionsCount >= 13
    /\ Len(tx_dates) > result.transactionsCount

\* C10: the trend values never decrease, none exceeds the reported score, and
\* the last one is strictly below the score exactly when ageMonths <= 25 and
\* the cap does not bind (50 + ageScore + txScore + immutabilityScore <= 100).
C10_TrendBelowScore ==
    Returned =>
        LET h == result.history
        IN  /\ \A k \in 1..(Len(h) - 1) : h[k].score <= h[k + 1].score
            /\ \A k \in 1..Len(h) : h[k].score <= result.score
            /\ (h[Len(h)].score < result.score) <=> (age_months <= 25 /\ FactorSum <= 100)

\* a young token whose factor sum is exactly the cap
C10_Witness ==
    /\ Returned
    /\ age_months <= 25
    /\ FactorSum = 100
    /\ result.history[Len(result.history)].score = 99

====
